---- MODULE Spec2Model ----
(***************************************************************************)
(* A model of the etherscan.io client binding (src/src/lib.rs and          *)
(* src/src/models.rs): the envelope decoder, the status classification,    *)
(* the numeric coercion of Balance, the query construction of the          *)
(* endpoint methods and the request/response exchange of one call.         *)
(*                                                                         *)
(* Strings the code inspects character by character (decimal payloads)     *)
(* are sequences of one-character strings.  Strings the code only compares *)
(* or copies (status, message, addresses, tokens) are atomic strings.      *)
(* A URI is the sequence of the pieces format! concatenates.               *)
(*                                                                         *)
(* Unsigned integers wider than the checker's machine integers are         *)
(* little-endian sequences of 16-bit limbs: u64 is 4 limbs, u128 is 8.     *)
(***************************************************************************)
EXTENDS Integers, Sequences, FiniteSets, TLC

----------------------------------------------------------------------------
(* Fixed-width unsigned arithmetic on limbs.                               *)

LimbBase == 2^16

U64Limbs == 64 \div 16

U128Limbs == 128 \div 16

Zero(n) == [i \in 1..n |-> 0]

IsZero(x) == \A i \in 1..Len(x) : x[i] = 0

\* Limb by limb from the least significant one, x * m with carry added in:
\* the result's limbs from i on, followed by the carry out of the last limb.
RECURSIVE MulAddFrom(_, _, _, _)
MulAddFrom(x, m, carry, i) ==
    IF i > Len(x) THEN <<carry>>
    ELSE <<(x[i] * m + carry) % LimbBase>>
            \o MulAddFrom(x, m, (x[i] * m + carry) \div LimbBase, i + 1)

\* x * m + d in the width of x: the limbs, and whether the true result
\* does not fit (the None of checked_mul / checked_add).
MulAdd(x, m, d) ==
    LET r == MulAddFrom(x, m, d, 1)
    IN  [ limbs |-> SubSeq(r, 1, Len(x)), overflow |-> r[Len(x) + 1] > 0 ]

checked_mul(x, m) == MulAdd(x, m, 0)

checked_add(x, d) == MulAdd(x, 1, d)

\* Long division by ten from the most significant limb i down, rem being
\* the remainder carried into limb i: the remainder, followed by the
\* quotient's limbs 1..i.
RECURSIVE DivMod10From(_, _, _)
DivMod10From(x, i, rem) ==
    IF i = 0 THEN <<rem>>
    ELSE Append(DivMod10From(x, i - 1, (rem * LimbBase + x[i]) % 10),
                (rem * LimbBase + x[i]) \div 10)

Div10(x) == Tail(DivMod10From(x, Len(x), 0))

Mod10(x) == DivMod10From(x, Len(x), 0)[1]

----------------------------------------------------------------------------
(* Decimal formatting and parsing of the standard library, as the code     *)
(* uses them: format!("{}", n) and str::parse.                             *)

DigitChars == <<"0", "1", "2", "3", "4", "5", "6", "7", "8", "9">>

IsDigit(c) == \E k \in 1..10 : DigitChars[k] = c

\* char::to_digit(10) of a character that is a digit.
to_digit(c) == (CHOOSE k \in 1..10 : DigitChars[k] = c) - 1

\* Display for an unsigned integer: the digits of repeated division by ten,
\* most significant first; zero prints as "0".
RECURSIVE FmtDigits(_)
FmtDigits(x) ==
    IF IsZero(x) THEN <<>>
    ELSE Append(FmtDigits(Div10(x)), DigitChars[Mod10(x) + 1])

to_string(x) == IF IsZero(x) THEN <<"0">> ELSE FmtDigits(x)

\* The digit loop of from_str_radix for an unsigned type: acc is the result
\* so far; the first character that is no digit, or the first overflow of
\* checked_mul / checked_add, ends the parse with that error.
RECURSIVE ParseDigits(_, _, _)
ParseDigits(digits, k, acc) ==
    IF k > Len(digits) THEN [ok |-> TRUE, v |-> acc]
    ELSE IF ~IsDigit(digits[k]) THEN [ok |-> FALSE, kind |-> "InvalidDigit"]
    ELSE LET m == checked_mul(acc, 10)
         IN  IF m.overflow THEN [ok |-> FALSE, kind |-> "PosOverflow"]
             ELSE LET a == checked_add(m.limbs, to_digit(digits[k]))
                  IN  IF a.overflow THEN [ok |-> FALSE, kind |-> "PosOverflow"]
                      ELSE ParseDigits(digits, k + 1, a.limbs)

\* <uN as FromStr>::from_str: empty input and a lone sign are errors, one
\* leading "+" is skipped, a "-" is no digit of an unsigned type.
parse_unsigned(src, nlimbs) ==
    IF Len(src) = 0 THEN [ok |-> FALSE, kind |-> "Empty"]
    ELSE IF Len(src) = 1 /\ src[1] \in {"+", "-"}
         THEN [ok |-> FALSE, kind |-> "InvalidDigit"]
    ELSE IF src[1] = "+" THEN ParseDigits(src, 2, Zero(nlimbs))
    ELSE ParseDigits(src, 1, Zero(nlimbs))

\* Whether the magnitude mag, negated when neg, is a value of the signed
\* type of mag's width: at most 2^(w-1) - 1, or at least -2^(w-1).
FitsSigned(mag, neg) ==
    \/ mag[Len(mag)] < LimbBase \div 2
    \/ /\ neg
       /\ mag[Len(mag)] = LimbBase \div 2
       /\ \A i \in 1..(Len(mag) - 1) : mag[i] = 0

\* The digit loop of from_str_radix for a signed type: the digits are added
\* to the result of a positive number (checked_mul, checked_add) and
\* subtracted from the result of a negative one (checked_mul, checked_sub);
\* mag is the magnitude of the result so far.
RECURSIVE ParseSignedDigits(_, _, _, _)
ParseSignedDigits(digits, k, mag, neg) ==
    LET over == IF neg THEN "NegOverflow" ELSE "PosOverflow"
    IN  IF k > Len(digits)
        THEN [ok |-> TRUE, v |-> [neg |-> neg /\ ~IsZero(mag), mag |-> mag]]
        ELSE IF ~IsDigit(digits[k]) THEN [ok |-> FALSE, kind |-> "InvalidDigit"]
        ELSE LET m == checked_mul(mag, 10)
             IN  IF m.overflow \/ ~FitsSigned(m.limbs, neg)
                 THEN [ok |-> FALSE, kind |-> over]
                 ELSE LET a == checked_add(m.limbs, to_digit(digits[k]))
                      IN  IF a.overflow \/ ~FitsSigned(a.limbs, neg)
                          THEN [ok |-> FALSE, kind |-> over]
                          ELSE ParseSignedDigits(digits, k + 1, a.limbs, neg)

\* <iN as FromStr>::from_str: empty input and a lone sign are errors, one
\* leading "+" or "-" is the sign.
parse_signed(src, nlimbs) ==
    IF Len(src) = 0 THEN [ok |-> FALSE, kind |-> "Empty"]
    ELSE IF Len(src) = 1 /\ src[1] \in {"+", "-"}
         THEN [ok |-> FALSE, kind |-> "InvalidDigit"]
    ELSE IF src[1] = "+" THEN ParseSignedDigits(src, 2, Zero(nlimbs), FALSE)
    ELSE IF src[1] = "-" THEN ParseSignedDigits(src, 2, Zero(nlimbs), TRUE)
    ELSE ParseSignedDigits(src, 1, Zero(nlimbs), FALSE)

----------------------------------------------------------------------------
(* src/src/lib.rs: status classification and the envelope decoder.         *)

BASE_URL == "https://api.etherscan.io/api"

ETHERSCANIO_API_TOKEN == "ETHERSCANIO_API_TOKEN"

\* impl FromStr for StatusCode, with type Err = StatusCode.
StatusCode_from_str(s) ==
    CASE s = "1" -> [ok |-> TRUE, v |-> "Ok"]
      [] s = "0" -> [ok |-> TRUE, v |-> "Error"]
      [] OTHER   -> [ok |-> FALSE, err |-> "Unknown"]

\* The field deserialiser named by #[serde(deserialize_with = "from_str")]:
\* the field's string goes through the field type's FromStr (parsed is its
\* result), and a failure to parse is a decode error of the whole record.
from_str(parsed) ==
    IF parsed.ok THEN [ok |-> TRUE, v |-> parsed.v]
    ELSE [ok |-> FALSE, err |-> [type |-> "reqwest::Error", kind |-> "decode"]]

DecodeError == [ok |-> FALSE, err |-> [type |-> "reqwest::Error", kind |-> "decode"]]

\* #[derive(Deserialize)] struct Balance(String): a JSON string.
deserialize_Balance(j) ==
    IF j.t = "string" THEN [ok |-> TRUE, v |-> [Balance |-> j.s]]
    ELSE DecodeError

\* #[derive(Deserialize)] struct Transaction: block_number is a u64 and
\* value an i64, each read from a string with from_str; the record decodes
\* when every field does.
deserialize_Transaction(o) ==
    LET b == from_str(parse_unsigned(o.blockNumber, U64Limbs))
        v == from_str(parse_signed(o.value, U64Limbs))
    IN  IF ~b.ok THEN DecodeError
        ELSE IF ~v.ok THEN DecodeError
        ELSE [ok |-> TRUE, v |-> [block_number |-> b.v, value |-> v.v]]

\* Vec<Transaction> keeping the elements that decode and dropping the others.
deserialize_Vec_Transaction_skipping(j) ==
    IF j.t # "array" THEN DecodeError
    ELSE LET good == SelectSeq(j.items, LAMBDA o : deserialize_Transaction(o).ok)
         IN  [ok |-> TRUE,
              v  |-> [Vec |-> [k \in 1..Len(good) |-> deserialize_Transaction(good[k]).v]]]

\* Vec<Transaction>: a JSON array every element of which decodes, in order.
deserialize_Vec_Transaction(j) ==
    IF j.t # "array" THEN DecodeError
    ELSE IF \E k \in 1..Len(j.items) : ~deserialize_Transaction(j.items[k]).ok
         THEN DecodeError
    ELSE [ok |-> TRUE,
          v  |-> [Vec |-> [k \in 1..Len(j.items) |->
                               deserialize_Transaction(j.items[k]).v]]]

deserialize_T(j, ty) ==
    IF ty = "Balance" THEN deserialize_Balance(j)
    ELSE deserialize_Vec_Transaction(j)

\* #[derive(Deserialize)] struct Response<T>: a JSON object with the fields
\* status (through from_str), message and result (a T).
deserialize_Response(body, ty) ==
    IF body.json # "object" THEN DecodeError
    ELSE LET st == from_str(StatusCode_from_str(body.status))
             r  == deserialize_T(body.result, ty)
         IN  IF ~st.ok THEN DecodeError
             ELSE IF ~r.ok THEN DecodeError
             ELSE [ok |-> TRUE,
                   v  |-> [status |-> st.v, message |-> body.message, result |-> r.v]]

\* result_or_error with the API's message lost from the error.
result_or_error_no_message(self) ==
    IF self.status = "Error"
    THEN [ok  |-> FALSE,
          err |-> [type        |-> "ResponseError",
                   status_code |-> self.status,
                   message     |-> "",
                   result      |-> self.result]]
    ELSE [ok |-> TRUE, v |-> self.result]

\* result_or_error with the match arm on StatusCode::Ok instead of Error.
result_or_error_inverted(self) ==
    IF self.status = "Ok"
    THEN [ok  |-> FALSE,
          err |-> [type        |-> "ResponseError",
                   status_code |-> self.status,
                   message     |-> self.message,
                   result      |-> self.result]]
    ELSE [ok |-> TRUE, v |-> self.result]

\* Response::result_or_error.
result_or_error(self) ==
    IF self.status = "Error"
    THEN [ok  |-> FALSE,
          err |-> [type        |-> "ResponseError",
                   status_code |-> self.status,
                   message     |-> self.message,
                   result      |-> self.result]]
    ELSE [ok |-> TRUE, v |-> self.result]

\* The body decoded and its result taken without result_or_error.
json_result_unchecked(body, ty) ==
    LET r == deserialize_Response(body, ty)
    IN  IF ~r.ok THEN r ELSE [ok |-> TRUE, v |-> r.v.result]

\* .json::<Response<T>>().await?.result_or_error() on a received body.
json_result_or_error(body, ty) ==
    LET r == deserialize_Response(body, ty)
    IN  IF ~r.ok THEN r ELSE result_or_error(r.v)

----------------------------------------------------------------------------
(* src/src/models.rs: numeric coercion.                                    *)

\* Balance::value parsing into 64 bits.
Balance_value_u64(self) ==
    LET p == parse_unsigned(self.Balance, U64Limbs)
    IN  IF p.ok THEN [ok |-> TRUE, v |-> p.v]
        ELSE [ok |-> FALSE, err |-> [type |-> "ParseIntError", kind |-> p.kind]]

\* Balance::value: self.0.parse() as u128.
Balance_value(self) ==
    LET p == parse_unsigned(self.Balance, U128Limbs)
    IN  IF p.ok THEN [ok |-> TRUE, v |-> p.v]
        ELSE [ok |-> FALSE, err |-> [type |-> "ParseIntError", kind |-> p.kind]]

\* fetch_balance coercing the payload before looking at the status.
fetch_balance_coercing_first(body) ==
    LET r == deserialize_Response(body, "Balance")
    IN  IF ~r.ok THEN r
        ELSE IF ~Balance_value(r.v.result).ok THEN Balance_value(r.v.result)
        ELSE IF result_or_error(r.v).ok THEN Balance_value(r.v.result)
        ELSE result_or_error(r.v)

\* The part of fetch_balance after the body arrived: the envelope decoder,
\* then the coercion of a successful payload.
fetch_balance_result(body) ==
    LET r == json_result_or_error(body, "Balance")
    IN  IF r.ok THEN Balance_value(r.v) ELSE r

----------------------------------------------------------------------------
(* src/src/lib.rs: query construction.                                     *)

\* parse_block_range testing the lower bound for zero.
parse_block_range_from_zero(from, to) ==
    IF IsZero(from) THEN <<>>
    ELSE <<"&startblock=">> \o to_string(from) \o <<"&endblock=">> \o to_string(to)

\* parse_block_range: no parameters when the upper bound is zero.
parse_block_range(from, to) ==
    IF IsZero(to) THEN <<>>
    ELSE <<"&startblock=">> \o to_string(from) \o <<"&endblock=">> \o to_string(to)

acc_balance_uri(self, account_addr) ==
    <<BASE_URL, "/?module=account&action=balance&address=", account_addr,
      "&tag=latest&apikey=", self.api_token>>

txs_on_account_from_to_uri(self, account_addr, from_block, end_block) ==
    <<BASE_URL, "?module=account&action=txlist&address=", account_addr>>
        \o parse_block_range(from_block, end_block)
        \o <<"&sort=asc&apikey=", self.api_token>>

txs_on_account_uri(self, account_addr) ==
    txs_on_account_from_to_uri(self, account_addr, Zero(U64Limbs), Zero(U64Limbs))

internal_txs_on_account_from_to_uri(self, account_addr, from_block, end_block) ==
    <<BASE_URL, "?module=account&action=txlistinternal&address=", account_addr>>
        \o parse_block_range(from_block, end_block)
        \o <<"&sort=asc&apikey=", self.api_token>>

internal_txs_on_account_uri(self, addr) ==
    internal_txs_on_account_from_to_uri(self, addr, Zero(U64Limbs), Zero(U64Limbs))

internal_txs_from_to_uri(self, from_block, end_block) ==
    <<BASE_URL, "?module=account&action=txlistinternal">>
        \o parse_block_range(from_block, end_block)
        \o <<"&page=1&offset=10&sort=asc&apikey=", self.api_token>>

erc20_transfers_on_account_from_to_uri(self, account_addr, from_block, end_block) ==
    <<BASE_URL, "?module=account&action=tokentx&address=", account_addr>>
        \o parse_block_range(from_block, end_block)
        \o <<"&sort=asc&apikey=", self.api_token>>

erc20_transfer_events_on_account_uri(self, account_addr) ==
    erc20_transfers_on_account_from_to_uri(self, account_addr,
                                           Zero(U64Limbs), Zero(U64Limbs))

erc271_transfers_on_account_from_to_uri(self, account_addr, from_block, end_block) ==
    <<BASE_URL, "?module=account&action=tokennfttx&address=", account_addr>>
        \o parse_block_range(from_block, end_block)
        \o <<"&sort=asc&apikey=", self.api_token>>

erc271_transfers_on_account_uri(self, account_addr) ==
    erc271_transfers_on_account_from_to_uri(self, account_addr,
                                            Zero(U64Limbs), Zero(U64Limbs))

\* The query of a ranged list method, by the method's name.
ranged_uri(method, self, account_addr, from_block, end_block) ==
    CASE method = "txs_on_account_from_to" ->
            txs_on_account_from_to_uri(self, account_addr, from_block, end_block)
      [] method = "internal_txs_on_account_from_to" ->
            internal_txs_on_account_from_to_uri(self, account_addr, from_block, end_block)
      [] method = "internal_txs_from_to" ->
            internal_txs_from_to_uri(self, from_block, end_block)
      [] method = "erc20_transfers_on_account_from_to" ->
            erc20_transfers_on_account_from_to_uri(self, account_addr, from_block, end_block)
      [] method = "erc271_transfers_on_account_from_to" ->
            erc271_transfers_on_account_from_to_uri(self, account_addr, from_block, end_block)

\* The query of the wrapper without range arguments around a ranged method
\* (internal_txs_from_to has none).
wrapper_uri(method, self, account_addr) ==
    CASE method = "txs_on_account_from_to" -> txs_on_account_uri(self, account_addr)
      [] method = "internal_txs_on_account_from_to" ->
            internal_txs_on_account_uri(self, account_addr)
      [] method = "erc20_transfers_on_account_from_to" ->
            erc20_transfer_events_on_account_uri(self, account_addr)
      [] method = "erc271_transfers_on_account_from_to" ->
            erc271_transfers_on_account_uri(self, account_addr)

----------------------------------------------------------------------------
(* src/src/lib.rs: construction of the client handle.                      *)

NoAPI == [api_token |-> "", client |-> "none"]

\* API::new.
new(api_token) == [api_token |-> api_token, client |-> "Client"]

\* new_from_env taking an absent variable for an empty token.
new_from_env_or_default(v) ==
    IF v.state = "set" THEN [ok |-> TRUE, v |-> [api_token |-> v.value, client |-> "Client"]]
    ELSE [ok |-> TRUE, v |-> [api_token |-> "", client |-> "Client"]]

\* API::new_from_env on the state v of the environment variable: std::env::var
\* fails with NotPresent or NotUnicode, and ? returns that error.
new_from_env(v) ==
    IF v.state = "set" THEN [ok |-> TRUE, v |-> [api_token |-> v.value, client |-> "Client"]]
    ELSE [ok |-> FALSE, err |-> [type |-> "VarError", kind |-> v.state]]

----------------------------------------------------------------------------
(* Bounds and the inputs the model draws from.                             *)

\* The number of endpoint calls that may be in flight on the handle.
MaxCalls == 2

Calls == 1..MaxCalls

Tokens == {"TOKEN_A"}

Addrs == {"0xADDR"}

\* The states of the environment variable ETHERSCANIO_API_TOKEN.
EnvStates ==
    { [state |-> "NotPresent", value |-> ""],
      [state |-> "NotUnicode", value |-> ""],
      [state |-> "set", value |-> "TOKEN_E"] }

U64(n) == [i \in 1..U64Limbs |-> IF i = 1 THEN n ELSE 0]

U64Max == [i \in 1..U64Limbs |-> LimbBase - 1]

U128Max == [i \in 1..U128Limbs |-> LimbBase - 1]

\* 2^128 - 1 and 2^128 in decimal.
U128MaxDigits ==
    <<"3","4","0","2","8","2","3","6","6","9","2","0","9","3","8","4","6","3","4","6",
      "3","3","7","4","6","0","7","4","3","1","7","6","8","2","1","1","4","5","5">>

U128OverDigits ==
    <<"3","4","0","2","8","2","3","6","6","9","2","0","9","3","8","4","6","3","4","6",
      "3","3","7","4","6","0","7","4","3","1","7","6","8","2","1","1","4","5","6">>

JString(s) == [t |-> "string", s |-> s, items |-> <<>>]

JArray(items) == [t |-> "array", s |-> <<>>, items |-> items]

\* 2^63 - 1 and 2^63 in decimal.
I64MaxDigits ==
    <<"9","2","2","3","3","7","2","0","3","6","8","5","4","7","7","5","8","0","7">>

I64OverDigits ==
    <<"9","2","2","3","3","7","2","0","3","6","8","5","4","7","7","5","8","0","8">>

\* Transaction objects: one that decodes, one whose blockNumber is no
\* number, one whose value is 2^63.
GoodTx == [blockNumber |-> <<"4","2">>, value |-> <<"1","0","0","0">>]

BadTx == [blockNumber |-> <<"0","x","2","a">>, value |-> <<"0">>]

OverTx == [blockNumber |-> <<"4","2">>, value |-> I64OverDigits]

Envelope(status, message, result) ==
    [json |-> "object", status |-> status, message |-> message, result |-> result]

\* A body that is no JSON object with the three fields.
Garbage == [json |-> "other", status |-> "", message |-> "", result |-> JString(<<>>)]

NoBody == [json |-> "none", status |-> "", message |-> "", result |-> JString(<<>>)]

\* The response bodies the remote API may send to a call.
Bodies ==
    { Envelope("1", "OK", JString(<<"1","0","0","0">>)),
      Envelope("1", "OK", JString(<<"a","b","c">>)),
      Envelope("1", "OK", JString(<<>>)),
      Envelope("1", "OK", JArray(<<>>)),
      Envelope("1", "OK", JArray(<<GoodTx, GoodTx>>)),
      Envelope("1", "OK", JArray(<<GoodTx, BadTx>>)),
      Envelope("1", "OK", JArray(<<GoodTx, OverTx>>)),
      Envelope("0", "NOTOK", JString(<<"a","b","c">>)),
      Envelope("0", "No transactions found", JArray(<<>>)),
      Envelope("2", "OK", JString(<<"a","b","c">>)),
      Envelope("2", "OK", JArray(<<GoodTx>>)),
      Garbage }

\* The block ranges a ranged call is made with.
BlockArgs == { <<U64(0), U64(0)>>, <<U64(5), U64(7)>> }

\* What std::env::var may find: the variable absent, not valid Unicode, or set.
NotRead == [state |-> "NotRead", value |-> ""]

----------------------------------------------------------------------------
(* The state.                                                              *)

VARIABLES
    envvar,     \* what new_from_env found in ETHERSCANIO_API_TOKEN (NotRead before)
    ctor,       \* how the handle was constructed, or why construction failed
    api,        \* the client handle (NoAPI before construction)
    calls,      \* calls[i]: the state of endpoint call i
    requests,   \* requests[i]: the URIs of the GET requests call i has issued
    arg,        \* the input of a function applied on its own
    applied,    \* whether that function has been applied
    ret         \* its result

vars == <<envvar, ctor, api, calls, requests, arg, applied, ret>>

machine == <<envvar, ctor, api, calls, requests>>

harness == <<arg, applied, ret>>

NoOutcome == [ok |-> FALSE, err |-> [type |-> "none"]]

NoArgs == [account_addr |-> "", from_block |-> U64(0), end_block |-> U64(0)]

Idle == [pc |-> "idle", method |-> "none", ty |-> "none", args |-> NoArgs,
         uri |-> <<>>, body |-> NoBody, outcome |-> NoOutcome]

TransportError == [ok |-> FALSE, err |-> [type |-> "reqwest::Error", kind |-> "transport"]]

NoArg == [fn |-> "none"]

NoRet == [v |-> "none"]

Init ==
    /\ envvar = NotRead
    /\ ctor = "none"
    /\ api = NoAPI
    /\ calls = [i \in Calls |-> Idle]
    /\ requests = [i \in Calls |-> <<>>]
    /\ arg = NoArg
    /\ applied = FALSE
    /\ ret = NoRet

----------------------------------------------------------------------------
(* Construction of the handle.                                             *)

New ==
    /\ ctor = "none"
    /\ \E t \in Tokens : api' = new(t)
    /\ ctor' = "new"
    /\ UNCHANGED <<envvar, calls, requests, harness>>

NewFromEnv ==
    /\ ctor = "none"
    /\ \E e \in EnvStates :
          /\ envvar' = e
          /\ LET r == new_from_env(e)
             IN  IF r.ok THEN api' = r.v /\ ctor' = "env"
                 ELSE api' = api /\ ctor' = r.err.kind
    /\ UNCHANGED <<calls, requests, harness>>

HasHandle == ctor \in {"new", "env"}

----------------------------------------------------------------------------
(* One endpoint call: the request is issued, the response arrives, the     *)
(* body arrives and is decoded.                                            *)

\* Send with the handle's credential overwritten by the call.
Send_mutating_handle(i, method, ty, args, uri) ==
    /\ HasHandle
    /\ calls[i].pc = "idle"
    /\ calls' = [calls EXCEPT ![i] =
                    [pc |-> "send", method |-> method, ty |-> ty, args |-> args,
                     uri |-> uri, body |-> NoBody, outcome |-> NoOutcome]]
    /\ requests' = [requests EXCEPT ![i] = Append(@, uri)]
    /\ api' = [api EXCEPT !.api_token = args.account_addr]
    /\ UNCHANGED <<envvar, ctor, harness>>

\* client.get(&uri).send() of call i: the GET request goes out.
Send(i, method, ty, args, uri) ==
    /\ HasHandle
    /\ calls[i].pc = "idle"
    /\ calls' = [calls EXCEPT ![i] =
                    [pc |-> "send", method |-> method, ty |-> ty, args |-> args,
                     uri |-> uri, body |-> NoBody, outcome |-> NoOutcome]]
    /\ requests' = [requests EXCEPT ![i] = Append(@, uri)]
    /\ UNCHANGED <<envvar, ctor, api, harness>>

acc_balance(i) ==
    \E a \in Addrs :
        Send(i, "acc_balance", "Balance",
             [account_addr |-> a, from_block |-> U64(0), end_block |-> U64(0)],
             acc_balance_uri(api, a))

txs_on_account_from_to(i) ==
    \E a \in Addrs, r \in BlockArgs :
        Send(i, "txs_on_account_from_to", "Vec<Transaction>",
             [account_addr |-> a, from_block |-> r[1], end_block |-> r[2]],
             txs_on_account_from_to_uri(api, a, r[1], r[2]))

\* txs_on_account is txs_on_account_from_to called with (0, 0).
txs_on_account(i) ==
    \E a \in Addrs :
        Send(i, "txs_on_account_from_to", "Vec<Transaction>",
             [account_addr |-> a, from_block |-> U64(0), end_block |-> U64(0)],
             txs_on_account_uri(api, a))

\* What a call returns once its body has arrived.
outcome_of(method, ty, body) ==
    IF method = "acc_balance" THEN fetch_balance_result(body)
    ELSE json_result_or_error(body, ty)

\* SendFails with the request issued once more instead of the error returned.
SendFails_retrying(i) ==
    /\ calls[i].pc = "send"
    /\ Len(requests[i]) < 2
    /\ requests' = [requests EXCEPT ![i] = Append(@, calls[i].uri)]
    /\ UNCHANGED <<envvar, ctor, api, calls, harness>>

\* .send().await? of call i fails: the call returns the transport error.
SendFails(i) ==
    /\ calls[i].pc = "send"
    /\ calls' = [calls EXCEPT ![i].pc = "done", ![i].outcome = TransportError]
    /\ UNCHANGED <<envvar, ctor, api, requests, harness>>

\* .send().await? of call i yields the response.
SendCompletes(i) ==
    /\ calls[i].pc = "send"
    /\ calls' = [calls EXCEPT ![i].pc = "json"]
    /\ UNCHANGED <<envvar, ctor, api, requests, harness>>

\* .json().await? of call i fails to read the body.
BodyFails(i) ==
    /\ calls[i].pc = "json"
    /\ calls' = [calls EXCEPT ![i].pc = "done", ![i].outcome = TransportError]
    /\ UNCHANGED <<envvar, ctor, api, requests, harness>>

\* .json().await of call i has the body: it is decoded and the call returns.
BodyArrives(i) ==
    /\ calls[i].pc = "json"
    /\ \E b \in Bodies :
          calls' = [calls EXCEPT ![i].pc = "done", ![i].body = b,
                        ![i].outcome = outcome_of(calls[i].method, calls[i].ty, b)]
    /\ UNCHANGED <<envvar, ctor, api, requests, harness>>

Next ==
    \/ New
    \/ NewFromEnv
    \/ \E i \in Calls : acc_balance(i)
    \/ \E i \in Calls : txs_on_account_from_to(i)
    \/ \E i \in Calls : txs_on_account(i)
    \/ \E i \in Calls : SendFails(i)
    \/ \E i \in Calls : SendCompletes(i)
    \/ \E i \in Calls : BodyFails(i)
    \/ \E i \in Calls : BodyArrives(i)

Spec == Init /\ [][Next]_vars

----------------------------------------------------------------------------
(* The functions applied on their own: Init draws an input, one action per *)
(* function applies it.                                                     *)

Messages == {"OK", "NOTOK", "No transactions found"}

StatusStrings == {"1", "0", "2", "", "10", "01", "ok", "error"}

\* Payloads as the decoder holds them: a Balance or a Vec<Transaction>.
Payloads ==
    { [Balance |-> <<"1","0","0","0">>],
      [Balance |-> <<"a","b","c">>],
      [Balance |-> <<>>],
      [Vec |-> <<>>],
      [Vec |-> <<[block_number |-> U64(42),
                  value |-> [neg |-> FALSE, mag |-> U64(1000)]]>>] }

Responses ==
    { [status |-> st, message |-> m, result |-> r] :
        st \in {"Ok", "Error", "Unknown"}, m \in Messages, r \in Payloads }

JResults ==
    { JString(<<"1","0","0","0">>), JString(<<"a","b","c">>), JString(<<>>),
      JArray(<<>>), JArray(<<GoodTx, GoodTx>>), JArray(<<GoodTx, BadTx>>),
      JArray(<<OverTx, GoodTx>>),
      JArray(<<[blockNumber |-> <<"7">>, value |-> I64MaxDigits]>>),
      JArray(<<[blockNumber |-> <<"7">>, value |-> <<"-">> \o I64OverDigits]>>),
      JArray(<<[blockNumber |-> <<"7">>, value |-> <<"-">> \o I64MaxDigits \o <<"0">>]>>),
      JArray(<<[blockNumber |-> <<"-","7">>, value |-> <<"-","7">>]>>) }

PureBodies ==
    { Envelope(st, m, r) : st \in StatusStrings, m \in {"OK", "NOTOK"}, r \in JResults }
        \cup {Garbage}

PayloadTypes == {"Balance", "Vec<Transaction>"}

\* The strings Balance::value is applied to.
ResultStrings ==
    { <<>>, <<"0">>, <<"7">>, <<"0","0","7">>, <<"+","5">>, <<"+">>, <<"-">>,
      <<"-","1">>, <<"+","+","1">>, <<"a","b","c">>, <<"1","2","a">>, <<" ","1">>,
      <<"1","0","0","0">>, U128MaxDigits, U128OverDigits,
      U128MaxDigits \o <<"0">>, <<"0">> \o U128MaxDigits, <<"+">> \o U128OverDigits }

\* Unsigned 128-bit values: every limb all zeros or all ones, and some more.
U128Values ==
    [1..U128Limbs -> {0, LimbBase - 1}]
        \cup { [i \in 1..U128Limbs |-> IF i = 1 THEN n ELSE 0] : n \in {1, 9, 10, 1000} }
        \cup { [i \in 1..U128Limbs |-> IF i = k THEN 1 ELSE 0] : k \in 1..U128Limbs }

U64Values == { U64(0), U64(1), U64(5), U64(7), U64(10), U64Max }

RangedMethods ==
    { "txs_on_account_from_to", "internal_txs_on_account_from_to",
      "internal_txs_from_to", "erc20_transfers_on_account_from_to",
      "erc271_transfers_on_account_from_to" }

WrappedMethods == RangedMethods \ {"internal_txs_from_to"}

PureInputs ==
    { [fn |-> "result_or_error", self |-> r] : r \in Responses }
    \cup { [fn |-> "StatusCode::from_str", s |-> st] : st \in StatusStrings }
    \cup { [fn |-> "json_result_or_error", body |-> b, ty |-> ty] :
              b \in PureBodies, ty \in PayloadTypes }
    \cup { [fn |-> "Balance::value", self |-> [Balance |-> str]] : str \in ResultStrings }
    \cup { [fn |-> "to_string;Balance::value", n |-> n] : n \in U128Values }
    \cup { [fn |-> "parse_block_range", from |-> f, to |-> t] :
              f \in U64Values, t \in U64Values }
    \cup { [fn |-> "ranged_uri", method |-> m, account_addr |-> a, from |-> f, to |-> t] :
              m \in RangedMethods, a \in Addrs, f \in U64Values, t \in {U64(0), U64(7), U64Max} }
    \cup { [fn |-> "wrapper_uri", method |-> m, account_addr |-> a] :
              m \in WrappedMethods, a \in Addrs }

InitPure ==
    /\ envvar = NotRead
    /\ ctor = "none"
    /\ api = NoAPI
    /\ calls = [i \in Calls |-> Idle]
    /\ requests = [i \in Calls |-> <<>>]
    /\ arg \in PureInputs
    /\ applied = FALSE
    /\ ret = NoRet

Apply(fn, result) ==
    /\ ~applied
    /\ arg.fn = fn
    /\ applied' = TRUE
    /\ ret' = [v |-> result]
    /\ UNCHANGED <<arg, machine>>

ApplyResultOrError == Apply("result_or_error", result_or_error(arg.self))

ApplyStatusCodeFromStr == Apply("StatusCode::from_str", StatusCode_from_str(arg.s))

ApplyJsonResultOrError ==
    Apply("json_result_or_error", json_result_or_error(arg.body, arg.ty))

ApplyBalanceValue == Apply("Balance::value", Balance_value(arg.self))

\* A u128 formatted with {} and the string coerced back.
ApplyFormatThenValue ==
    Apply("to_string;Balance::value", Balance_value([Balance |-> to_string(arg.n)]))

ApplyParseBlockRange ==
    Apply("parse_block_range", parse_block_range(arg.from, arg.to))

ApplyRangedUri ==
    Apply("ranged_uri",
          ranged_uri(arg.method, new("TOKEN_A"), arg.account_addr, arg.from, arg.to))

ApplyWrapperUri ==
    Apply("wrapper_uri", wrapper_uri(arg.method, new("TOKEN_A"), arg.account_addr))

NextPure ==
    \/ ApplyResultOrError
    \/ ApplyStatusCodeFromStr
    \/ ApplyJsonResultOrError
    \/ ApplyBalanceValue
    \/ ApplyFormatThenValue
    \/ ApplyParseBlockRange
    \/ ApplyRangedUri
    \/ ApplyWrapperUri

SpecPure == InitPure /\ [][NextPure]_vars

----------------------------------------------------------------------------
(* Properties.                                                             *)

ResponseErrorOf(message, result) ==
    [ok  |-> FALSE,
     err |-> [type |-> "ResponseError", status_code |-> "Error",
              message |-> message, result |-> result]]

Done(i) == calls[i].pc = "done"

\* C1: an envelope whose status is Error (status string "0") never decodes to
\* success: result_or_error returns a ResponseError whose status is Error and
\* whose message and payload are the envelope's.
C1_ErrorEnvelopeYieldsResponseError ==
    /\ (applied /\ arg.fn = "result_or_error" /\ arg.self.status = "Error")
          => ret.v = ResponseErrorOf(arg.self.message, arg.self.result)
    /\ (applied /\ arg.fn = "json_result_or_error" /\ arg.body.json = "object"
               /\ arg.body.status = "0" /\ deserialize_T(arg.body.result, arg.ty).ok)
          => ret.v = ResponseErrorOf(arg.body.message,
                                     deserialize_T(arg.body.result, arg.ty).v)

C1_Witness ==
    /\ applied
    /\ arg.fn = "result_or_error"
    /\ arg.self = [status |-> "Error", message |-> "No transactions found",
                   result |-> [Vec |-> <<>>]]
    /\ ~ret.v.ok
    /\ ret.v.err.message = "No transactions found"

\* C2: an envelope whose status is Ok (status string "1") decodes to success
\* carrying exactly its result payload, never to an error.
C2_OkEnvelopeYieldsPayload ==
    /\ (applied /\ arg.fn = "result_or_error" /\ arg.self.status = "Ok")
          => ret.v = [ok |-> TRUE, v |-> arg.self.result]
    /\ (applied /\ arg.fn = "json_result_or_error" /\ arg.body.json = "object"
               /\ arg.body.status = "1" /\ deserialize_T(arg.body.result, arg.ty).ok)
          => /\ ret.v = [ok |-> TRUE, v |-> deserialize_T(arg.body.result, arg.ty).v]
             /\ arg.ty = "Balance" => ret.v.v.Balance = arg.body.result.s

C2_Witness ==
    /\ applied
    /\ arg.fn = "json_result_or_error"
    /\ arg.ty = "Balance"
    /\ arg.body = Envelope("1", "OK", JString(<<"1","0","0","0">>))
    /\ ret.v = [ok |-> TRUE, v |-> [Balance |-> <<"1","0","0","0">>]]

\* C3: an envelope whose status string is neither "1" nor "0", and whose
\* result has the payload's shape, decodes (deserialisation, then
\* result_or_error) to success with the payload.
C3_UnknownStatusYieldsSuccess ==
    (applied /\ arg.fn = "json_result_or_error" /\ arg.body.json = "object"
            /\ arg.body.status \notin {"0", "1"}
            /\ deserialize_T(arg.body.result, arg.ty).ok)
       => ret.v = [ok |-> TRUE, v |-> deserialize_T(arg.body.result, arg.ty).v]

\* C4: StatusCode::from_str succeeds on every string: "1" gives Ok, "0" gives
\* Error and every other string gives Unknown, as a successful result.
C4_ClassificationIsTotal ==
    (applied /\ arg.fn = "StatusCode::from_str")
       => /\ ret.v.ok
          /\ ret.v.v = (IF arg.s = "1" THEN "Ok"
                        ELSE IF arg.s = "0" THEN "Error" ELSE "Unknown")

\* The decimal numerals of the values the range methods are applied to.
KnownDecimal(x) ==
    CASE x = U64(0)  -> <<"0">>
      [] x = U64(1)  -> <<"1">>
      [] x = U64(5)  -> <<"5">>
      [] x = U64(7)  -> <<"7">>
      [] x = U64(10) -> <<"1","0">>
      [] x = U64Max  -> <<"1","8","4","4","6","7","4","4","0","7","3",
                          "7","0","9","5","5","1","6","1","5">>

Pieces(q, piece) == {k \in 1..Len(q) : q[k] = piece}

\* Whether the query q carries the range from..to: both parameters once, the
\* lower bound first, each followed by exactly its numeral.
CarriesRange(q, from, to) ==
    /\ Cardinality(Pieces(q, "&startblock=")) = 1
    /\ Cardinality(Pieces(q, "&endblock=")) = 1
    /\ LET a == CHOOSE k \in Pieces(q, "&startblock=") : TRUE
           b == CHOOSE k \in Pieces(q, "&endblock=") : TRUE
           f == KnownDecimal(from)
           t == KnownDecimal(to)
       IN  /\ b = a + Len(f) + 1
           /\ b + Len(t) <= Len(q)
           /\ SubSeq(q, a + 1, b - 1) = f
           /\ parse_unsigned(SubSeq(q, a + 1, b - 1), U64Limbs) = [ok |-> TRUE, v |-> from]
           /\ SubSeq(q, b + 1, b + Len(t)) = t
           /\ b + Len(t) < Len(q) => ~IsDigit(q[b + Len(t) + 1])

CarriesNoRange(q) ==
    /\ Pieces(q, "&startblock=") = {}
    /\ Pieces(q, "&endblock=") = {}
    /\ \A k \in 1..Len(q) : ~IsDigit(q[k])

\* C5: with an upper bound of 0 the range parameters are omitted altogether,
\* whatever the lower bound; with an upper bound above 0 the query carries
\* startblock and endblock with exactly the supplied values; the methods
\* without range arguments build the query of the ranged method called
\* with (0, 0).
C5_RangeFilter ==
    /\ (applied /\ arg.fn = "parse_block_range")
          => IF arg.to = U64(0) THEN ret.v = <<>>
             ELSE /\ CarriesRange(ret.v, arg.from, arg.to)
                  /\ Len(ret.v) = 2 + Len(KnownDecimal(arg.from)) + Len(KnownDecimal(arg.to))
    /\ (applied /\ arg.fn = "ranged_uri")
          => IF arg.to = U64(0) THEN CarriesNoRange(ret.v)
             ELSE CarriesRange(ret.v, arg.from, arg.to)
    /\ (applied /\ arg.fn = "wrapper_uri")
          => /\ CarriesNoRange(ret.v)
             /\ ret.v = ranged_uri(arg.method, new("TOKEN_A"), arg.account_addr,
                                   U64(0), U64(0))

C5_Witness ==
    /\ applied
    /\ arg.fn = "parse_block_range"
    /\ arg.from = U64(0)
    /\ arg.to = U64(7)
    /\ ret.v = <<"&startblock=", "0", "&endblock=", "7">>

\* C6, as claimed: a call whose response body is an envelope with status "0"
\* returns an envelope error carrying the body's message, whatever the
\* payload.
C6_Status0YieldsEnvelopeErrorWhateverPayload ==
    \A i \in Calls :
        (Done(i) /\ calls[i].body.json = "object" /\ calls[i].body.status = "0")
           => /\ ~calls[i].outcome.ok
              /\ calls[i].outcome.err.type = "ResponseError"
              /\ calls[i].outcome.err.message = calls[i].body.message

\* C6, amended: a call whose response body is an envelope with status "0"
\* returns an envelope error carrying the body's message and payload when the
\* result field decodes as the endpoint's payload type, and a decode error
\* when it does not.
C6_Status0YieldsEnvelopeError ==
    \A i \in Calls :
        (Done(i) /\ calls[i].body.json = "object" /\ calls[i].body.status = "0")
           => LET p == deserialize_T(calls[i].body.result, calls[i].ty)
              IN  IF p.ok
                  THEN calls[i].outcome = ResponseErrorOf(calls[i].body.message, p.v)
                  ELSE calls[i].outcome = DecodeError

C6_Witness ==
    \E i \in Calls :
        /\ Done(i)
        /\ calls[i].method = "txs_on_account_from_to"
        /\ calls[i].body = Envelope("0", "No transactions found", JArray(<<>>))
        /\ calls[i].outcome = ResponseErrorOf("No transactions found", [Vec |-> <<>>])

RECURSIVE StripZeros(_)
StripZeros(d) == IF Len(d) > 1 /\ d[1] = "0" THEN StripZeros(Tail(d)) ELSE d

\* Whether the numeral a is at most the numeral b (neither has leading zeros).
NumeralLeq(a, b) ==
    \/ Len(a) < Len(b)
    \/ /\ Len(a) = Len(b)
       /\ \A k \in 1..Len(a) :
             (\A j \in 1..(k-1) : a[j] = b[j]) => to_digit(a[k]) <= to_digit(b[k])

\* Whether the string is a decimal numeral, with or without a leading plus
\* sign, of a value up to 2^128 - 1.
IsDecimalU128(str) ==
    LET d == IF Len(str) > 0 /\ str[1] = "+" THEN Tail(str) ELSE str
    IN  /\ Len(d) > 0
        /\ \A k \in 1..Len(d) : IsDigit(d[k])
        /\ NumeralLeq(StripZeros(d), U128MaxDigits)

\* C7: in a numeric endpoint, a result string that is no unsigned 128-bit
\* decimal under an envelope whose status is not Error makes the call return
\* a coercion error (ParseIntError), a kind of its own next to the envelope
\* error and the transport error.
C7_MalformedNumberYieldsCoercionError ==
    \A i \in Calls :
        (Done(i) /\ calls[i].method = "acc_balance"
                 /\ calls[i].body.json = "object" /\ calls[i].body.status # "0"
                 /\ calls[i].body.result.t = "string"
                 /\ ~IsDecimalU128(calls[i].body.result.s))
           => /\ ~calls[i].outcome.ok
              /\ calls[i].outcome.err.type = "ParseIntError"

\* C8: a u128 formatted as a decimal string and coerced with Balance::value
\* is the same u128 again.
C8_FormatThenValueRoundTrips ==
    (applied /\ arg.fn = "to_string;Balance::value")
       => ret.v = [ok |-> TRUE, v |-> arg.n]

C8_Witness ==
    /\ applied
    /\ arg.fn = "to_string;Balance::value"
    /\ arg.n = U128Max
    /\ to_string(arg.n) = U128MaxDigits
    /\ ret.v.ok

NoRequestIssued == \A i \in Calls : requests[i] = <<>> /\ calls[i].pc = "idle"

\* C9: when new_from_env finds the variable absent, construction fails with a
\* configuration error, there is no handle and no request is issued, before
\* or after; when it finds the variable set, the handle's credential is the
\* variable's value.
C9_NewFromEnv ==
    /\ envvar.state = "NotPresent"
          => ctor = "NotPresent" /\ api = NoAPI /\ NoRequestIssued
    /\ ctor = "none" => NoRequestIssued
    /\ envvar.state = "set"
          => ctor = "env" /\ api.api_token = envvar.value /\ api.client = "Client"

C9_Witness ==
    /\ envvar.state = "NotPresent"
    /\ ctor = "NotPresent"
    /\ api = NoAPI

\* What a finished call got as its response: the body, or the transport's
\* failure.
ResponseTo(c) == IF c.body = NoBody THEN <<"failed">> ELSE <<"body", c.body>>

\* C10: calls on one handle are independent under every interleaving: no call
\* changes the handle, a step of one call leaves every other call as it was,
\* and a finished call's query and outcome are determined by its own method,
\* arguments and response.
C10_CallsIndependent ==
    /\ [][HasHandle => api' = api]_vars
    /\ [][\A i, j \in Calls :
             (i # j /\ (calls'[i] # calls[i] \/ requests'[i] # requests[i]))
                => (calls'[j] = calls[j] /\ requests'[j] = requests[j])]_vars
    /\ [](\A i, j \in Calls :
             (Done(i) /\ Done(j) /\ calls[i].method = calls[j].method
                     /\ calls[i].args = calls[j].args
                     /\ ResponseTo(calls[i]) = ResponseTo(calls[j]))
                => (calls[i].outcome = calls[j].outcome /\ calls[i].uri = calls[j].uri))
    /\ [](\A i \in Calls : calls[i].pc # "idle" => requests[i] = <<calls[i].uri>>)

C10_Witness ==
    /\ Done(1)
    /\ calls[2].pc = "json"
    /\ calls[1].method = "acc_balance"
    /\ calls[2].method = "txs_on_account_from_to"
    /\ calls[1].outcome.ok
    /\ api = new("TOKEN_A")

\* The outcomes a call may return.
IsOutcome(o) ==
    \/ o.ok
    \/ o = TransportError
    \/ o = DecodeError
    \/ o.err.type \in {"ResponseError", "ParseIntError"}

\* C11: a call issues exactly one GET request and none after it; whatever
\* its outcome, a finished call has returned it as a value and takes no
\* further step; a call that failed leaves the handle as it was and another
\* call can be made on it.
C11_SingleExchangeNoRetry ==
    /\ [](\A i \in Calls :
             /\ Len(requests[i]) = (IF calls[i].pc = "idle" THEN 0 ELSE 1)
             /\ Done(i) => IsOutcome(calls[i].outcome))
    /\ [][\A i \in Calls :
             /\ calls[i].pc # "idle" => requests'[i] = requests[i]
             /\ Done(i) => calls'[i] = calls[i]]_vars
    /\ [](\A i, j \in Calls :
             (Done(i) /\ ~calls[i].outcome.ok /\ calls[j].pc = "idle")
                => (api \in {new(t) : t \in Tokens \cup {"TOKEN_E"}}
                    /\ ENABLED acc_balance(j)
                    /\ ENABLED txs_on_account_from_to(j)))

C11_Witness ==
    /\ Done(1)
    /\ calls[1].outcome = TransportError
    /\ requests[1] = <<calls[1].uri>>
    /\ Done(2)
    /\ calls[2].outcome.ok
    /\ requests[2] = <<calls[2].uri>>

\* 2^64 - 1 in decimal.
U64MaxDigits == KnownDecimal(U64Max)

IsNumeral(d) == Len(d) > 0 /\ \A k \in 1..Len(d) : IsDigit(d[k])

\* Whether the string is a decimal numeral, with or without a leading plus
\* sign, of a value up to 2^64 - 1.
IsDecimalU64(str) ==
    LET d == IF Len(str) > 0 /\ str[1] = "+" THEN Tail(str) ELSE str
    IN  IsNumeral(d) /\ NumeralLeq(StripZeros(d), U64MaxDigits)

\* Whether the string is a decimal numeral, with or without a sign, of a
\* value from -2^63 to 2^63 - 1.
IsDecimalI64(str) ==
    LET d == IF Len(str) > 0 /\ str[1] \in {"+", "-"} THEN Tail(str) ELSE str
    IN  /\ IsNumeral(d)
        /\ IF str[1] = "-" THEN NumeralLeq(StripZeros(d), I64OverDigits)
           ELSE NumeralLeq(StripZeros(d), I64MaxDigits)

\* Whether every numeric field of the transaction object is a numeral of
\* its field's type.
TxFieldsParse(o) == IsDecimalU64(o.blockNumber) /\ IsDecimalI64(o.value)

SomeTxFieldFails(j) ==
    j.t = "array" /\ \E k \in 1..Len(j.items) : ~TxFieldsParse(j.items[k])

\* C12: when a numeric field of any record of a transaction list fails to
\* parse into its type (no number, or out of the type's range, as a value
\* above 2^63 - 1), the whole body fails to decode and the call returns a
\* decode error; a list that is returned holds every record of the body.
C12_RecordDecodingAllOrNothing ==
    /\ \A i \in Calls :
          (Done(i) /\ calls[i].ty = "Vec<Transaction>" /\ calls[i].body.json = "object")
             => /\ SomeTxFieldFails(calls[i].body.result)
                    => calls[i].outcome = DecodeError
                /\ calls[i].outcome.ok
                    => Len(calls[i].outcome.v.Vec) = Len(calls[i].body.result.items)
    /\ (applied /\ arg.fn = "json_result_or_error" /\ arg.ty = "Vec<Transaction>"
               /\ arg.body.json = "object")
          => /\ SomeTxFieldFails(arg.body.result) => ret.v = DecodeError
             /\ ret.v.ok => Len(ret.v.v.Vec) = Len(arg.body.result.items)

C12_Witness ==
    \E i \in Calls :
        /\ Done(i)
        /\ calls[i].method = "txs_on_account_from_to"
        /\ calls[i].body = Envelope("1", "OK", JArray(<<GoodTx, OverTx>>))
        /\ calls[i].outcome = DecodeError

\* C13: fetch_balance decides in the order transport, body decode, envelope
\* status, numeric coercion, and the first stage that fails gives the
\* outcome: a status "0" envelope with a non-numeric result string yields
\* the envelope error carrying that string, never a coercion error.
C13_FetchBalanceStageOrder ==
    \A i \in Calls :
        (Done(i) /\ calls[i].method = "acc_balance")
           => LET b == calls[i].body
                  o == calls[i].outcome
              IN  /\ b = NoBody => o = TransportError
                  /\ (b # NoBody /\ (b.json # "object" \/ b.result.t # "string"))
                        => o = DecodeError
                  /\ (b.json = "object" /\ b.result.t = "string" /\ b.status = "0")
                        => o = ResponseErrorOf(b.message, [Balance |-> b.result.s])
                  /\ (b.json = "object" /\ b.result.t = "string" /\ b.status = "1")
                        => IF IsDecimalU128(b.result.s)
                           THEN o.ok /\ to_string(o.v) = StripZeros(b.result.s)
                           ELSE ~o.ok /\ o.err.type = "ParseIntError"

C13_Witness ==
    \E i \in Calls :
        /\ Done(i)
        /\ calls[i].method = "acc_balance"
        /\ calls[i].body = Envelope("0", "NOTOK", JString(<<"a","b","c">>))
        /\ calls[i].outcome = ResponseErrorOf("NOTOK", [Balance |-> <<"a","b","c">>])

====
